---- MODULE Spec2Model ----
(***************************************************************************)
(* Model of the awsbraket command-line client: the config store            *)
(* (src/src/config.js), the SigV4 signer and the authenticated client      *)
(* (signedRequest, apiRequest, handleApiError and the ten API operations   *)
(* of src/src/index.js) and the CLI command handlers of src/src/index.js.  *)
(*                                                                         *)
(* JavaScript values are records tagged by their type.  A JavaScript       *)
(* string value is the sequence of its pieces: each character that         *)
(* JSON.stringify escapes (quote, backslash, newline) is a piece of its    *)
(* own, and the text between two of them is one piece.  Texts that are     *)
(* never serialized (method, path, header names, messages, digests) are    *)
(* TLA+ strings.  SHA-256 and HMAC-SHA256 are symbolic, injective          *)
(* functions of their arguments.                                           *)
(***************************************************************************)
EXTENDS Integers, Sequences, FiniteSets, TLC

VARIABLES
  config,      \* the persisted config store
  pc,          \* "idle": no call in progress; "done": a call or command has completed
  invocation,  \* the call or command that ran: its level, name, arguments and inputs
  signerLog,   \* the results of the signedRequest calls it made
  httpLog,     \* the requests it handed to axios
  completion,  \* how the API operation it called completed
  exitCode,    \* the exit code of the process (CLI commands)
  stderr       \* the messages it printed with printError

vars == <<config, pc, invocation, signerLog, httpLog, completion, exitCode, stderr>>

-----------------------------------------------------------------------------
(* JavaScript values *)

Undef == [t |-> "undefined"]

Null == [t |-> "null"]

\* the characters JSON.stringify escapes
Special == {"\"", "\\", "\n"}

\* two normalised piece sequences, joined: plain pieces that meet are merged
Merge(a, b) ==
  IF Len(a) = 0 THEN b
  ELSE IF Len(b) = 0 THEN a
  ELSE IF a[Len(a)] \notin Special /\ b[1] \notin Special
  THEN SubSeq(a, 1, Len(a) - 1) \o <<a[Len(a)] \o b[1]>> \o Tail(b)
  ELSE a \o b

RECURSIVE NormalizeRange(_, _, _)
NormalizeRange(cs, lo, hi) ==
  IF lo > hi THEN <<>>
  ELSE IF lo = hi THEN (IF cs[lo] = "" THEN <<>> ELSE <<cs[lo]>>)
  ELSE Merge(NormalizeRange(cs, lo, (lo + hi) \div 2),
             NormalizeRange(cs, (lo + hi) \div 2 + 1, hi))

\* the pieces of a text: no empty piece, no two plain pieces in a row
Normalize(cs) == NormalizeRange(cs, 1, Len(cs))

\* the string value with the given pieces
StrC(cs) == [t |-> "string", c |-> Normalize(cs)]

\* the string value of a text without special characters
Str(s) == StrC(<<s>>)

RECURSIVE ConcatRange(_, _, _)
\* the pieces lo..hi of chars, joined
ConcatRange(chars, lo, hi) ==
  IF lo > hi THEN ""
  ELSE IF lo = hi THEN chars[lo]
  ELSE ConcatRange(chars, lo, (lo + hi) \div 2)
         \o ConcatRange(chars, (lo + hi) \div 2 + 1, hi)

Concat(chars) == ConcatRange(chars, 1, Len(chars))

\* the text of a string value
Text(v) == Concat(v.c)

Num(n) == [t |-> "number", n |-> n]

Bool(b) == [t |-> "boolean", b |-> b]

\* an array is the sequence of its elements
Arr(a) == [t |-> "array", a |-> a]

\* an object is the sequence of its own properties, in insertion order
Obj(o) == [t |-> "object", o |-> o]

Prop(k, v) == [k |-> k, v |-> v]

\* ToBoolean
Truthy(v) ==
  CASE v.t = "undefined" -> FALSE
    [] v.t = "null" -> FALSE
    [] v.t = "string" -> Len(v.c) # 0
    [] v.t = "number" -> v.n # 0
    [] v.t = "boolean" -> v.b
    [] OTHER -> TRUE

\* a || b
Or(a, b) == IF Truthy(a) THEN a ELSE b

\* v.key ; the model reads properties of non-nullish values only
GetProp(v, key) ==
  IF v.t = "object" /\ \E i \in 1..Len(v.o) : v.o[i].k = key
  THEN v.o[CHOOSE i \in 1..Len(v.o) : v.o[i].k = key].v
  ELSE Undef

\* v?.key
OptProp(v, key) == IF v.t \in {"undefined", "null"} THEN Undef ELSE GetProp(v, key)

\* obj.key = value
SetProp(obj, key, value) ==
  IF \E i \in 1..Len(obj.o) : obj.o[i].k = key
  THEN Obj([i \in 1..Len(obj.o) |->
             IF obj.o[i].k = key THEN Prop(key, value) ELSE obj.o[i]])
  ELSE Obj(Append(obj.o, Prop(key, value)))

\* Object.keys(obj)
ObjectKeys(obj) == [i \in 1..Len(obj.o) |-> obj.o[i].k]

RECURSIVE JoinStr(_, _)
\* Array.prototype.join on an array of strings
JoinStr(seq, sep) ==
  IF Len(seq) = 0 THEN ""
  ELSE IF Len(seq) = 1 THEN seq[1]
  ELSE seq[1] \o sep \o JoinStr(Tail(seq), sep)

RECURSIVE JoinRange(_, _, _, _)
\* the elements lo..hi of seq joined by sep
JoinRange(seq, sep, lo, hi) ==
  IF lo > hi THEN <<>>
  ELSE IF lo = hi THEN seq[lo]
  ELSE JoinRange(seq, sep, lo, (lo + hi) \div 2) \o sep
         \o JoinRange(seq, sep, (lo + hi) \div 2 + 1, hi)

\* the pieces of the texts of seq joined by sep
JoinSeq(seq, sep) == JoinRange(seq, sep, 1, Len(seq))

\* the escape sequence of a piece inside a JSON string
Escape(c) ==
  CASE c = "\"" -> <<"\\", "\"">>
    [] c = "\\" -> <<"\\", "\\">>
    [] c = "\n" -> <<"\\", "n">>
    [] OTHER -> <<c>>

\* JSON quoting of a text given by its pieces
Quote(cs) == <<"\"">> \o JoinSeq([i \in 1..Len(cs) |-> Escape(cs[i])], <<>>) \o <<"\"">>

RECURSIVE Serialize(_)
\* the pieces of JSON.stringify(v), for a value that serializes to text
Serialize(v) ==
  CASE v.t = "null" -> <<"null">>
    [] v.t = "string" -> Quote(v.c)
    [] v.t = "number" -> <<ToString(v.n)>>
    [] v.t = "boolean" -> (IF v.b THEN <<"true">> ELSE <<"false">>)
    [] v.t = "array" ->
         <<"[">> \o JoinSeq([i \in 1..Len(v.a) |->
                              IF v.a[i].t = "undefined" THEN <<"null">>
                              ELSE Serialize(v.a[i])],
                            <<",">>) \o <<"]">>
    [] v.t = "object" ->
         LET kept == SelectSeq(v.o, LAMBDA p : p.v.t # "undefined")
         IN <<"{">> \o JoinSeq([i \in 1..Len(kept) |->
                                 Quote(<<kept[i].k>>) \o <<":">> \o Serialize(kept[i].v)],
                               <<",">>) \o <<"}">>

\* JSON.stringify(v): undefined for undefined, else a string
JSONstringify(v) == IF v.t = "undefined" THEN Undef ELSE StrC(Serialize(v))

\* the pieces of String(v), the conversion of a template literal
Pieces(v) ==
  CASE v.t = "undefined" -> <<"undefined">>
    [] v.t = "null" -> <<"null">>
    [] v.t = "string" -> v.c
    [] v.t = "number" -> <<ToString(v.n)>>
    [] v.t = "boolean" -> (IF v.b THEN <<"true">> ELSE <<"false">>)
    [] v.t = "object" -> <<"[object Object]">>
    [] v.t = "array" ->
         JoinSeq([i \in 1..Len(v.a) |->
                   IF v.a[i].t \in {"undefined", "null"} THEN <<>>
                   ELSE IF v.a[i].t = "string" THEN v.a[i].c
                   ELSE IF v.a[i].t = "number" THEN <<ToString(v.a[i].n)>>
                   ELSE <<"[object Object]">>], <<",">>)

\* `${v}` as a text
TemplateStr(v) == Concat(Pieces(v))

-----------------------------------------------------------------------------
(* Strings the code processes character by character are given as the     *)
(* sequence of their characters.                                           *)

Unreserved ==
  {"a", "b", "c", "d", "e", "f", "g", "h", "i", "j", "k", "l", "m", "n", "o", "p",
   "q", "r", "s", "t", "u", "v", "w", "x", "y", "z", "A", "B", "C", "D", "E", "F",
   "G", "H", "I", "J", "K", "L", "M", "N", "O", "P", "Q", "R", "S", "T", "U", "V",
   "W", "X", "Y", "Z", "0", "1", "2", "3", "4", "5", "6", "7", "8", "9",
   "-", "_", ".", "!", "~", "*", "'", "(", ")"}

PercentEncode(c) ==
  CASE c = ":" -> "%3A"
    [] c = "/" -> "%2F"
    [] c = " " -> "%20"
    [] c = "?" -> "%3F"
    [] c = "#" -> "%23"

\* encodeURIComponent
encodeURIComponent(chars) ==
  Concat([i \in 1..Len(chars) |->
           IF chars[i] \in Unreserved THEN chars[i] ELSE PercentEncode(chars[i])])

-----------------------------------------------------------------------------
(* AWS SigV4 request signing *)

SERVICE == "braket"

\* crypto.createHash('sha256').update(s).digest('hex')
Sha256Hex(s) == "sha256(" \o s \o ")"

\* crypto.createHmac('sha256', key).update(msg).digest()
sign(key, msg) == "hmac(" \o key \o "," \o msg \o ")"

getSignatureKey(key, dateStamp, region, service) ==
  LET kDate == sign("AWS4" \o key, dateStamp)
      kRegion == sign(kDate, region)
      kService == sign(kRegion, service)
      kSigning == sign(kService, "aws4_request")
  IN kSigning

\* Date.prototype.toISOString, as the sequence of its fields and separators
toISOString(now) ==
  <<now.Y, "-", now.M, "-", now.D, "T", now.h, ":", now.m, ":", now.s, ".", now.ms, "Z">>

\* .replace(/[:-]|\.\d{3}/g, '') on the fields of an ISO timestamp
StripPunctuation(toks) ==
  LET dropped(i) == \/ toks[i] \in {":", "-"}
                    \/ toks[i] = "." /\ i < Len(toks) /\ Len(toks[i + 1]) = 3
                    \/ i > 1 /\ toks[i - 1] = "." /\ Len(toks[i]) = 3
      keep == {i \in 1..Len(toks) : ~dropped(i)}
      RECURSIVE Pick(_)
      Pick(i) == IF i > Len(toks) THEN <<>>
                 ELSE IF i \in keep THEN <<toks[i]>> \o Pick(i + 1) ELSE Pick(i + 1)
  IN Pick(1)

\* new Date().toISOString().replace(...), the clock being an input
getAmzDate(now) == StripPunctuation(toISOString(now))

RECURSIVE Substring0(_, _)
\* s.substring(0, n) of a string given by its fields (n falls on a field boundary)
Substring0(toks, n) ==
  IF Len(toks) = 0 \/ Len(toks[1]) > n THEN ""
  ELSE toks[1] \o Substring0(Tail(toks), n - Len(toks[1]))

\* UTF-16 code units of the header names
CodeUnits(name) ==
  CASE name = "content-type" ->
         <<99, 111, 110, 116, 101, 110, 116, 45, 116, 121, 112, 101>>
    [] name = "host" -> <<104, 111, 115, 116>>
    [] name = "x-amz-date" -> <<120, 45, 97, 109, 122, 45, 100, 97, 116, 101>>
    [] name = "x-amz-content-sha256" ->
         <<120, 45, 97, 109, 122, 45, 99, 111, 110, 116, 101, 110, 116, 45, 115,
           104, 97, 50, 53, 54>>
    [] name = "x-amz-security-token" ->
         <<120, 45, 97, 109, 122, 45, 115, 101, 99, 117, 114, 105, 116, 121, 45,
           116, 111, 107, 101, 110>>

RECURSIVE CodeLess(_, _)
CodeLess(a, b) ==
  IF Len(b) = 0 THEN FALSE
  ELSE IF Len(a) = 0 THEN TRUE
  ELSE IF a[1] # b[1] THEN a[1] < b[1]
  ELSE CodeLess(Tail(a), Tail(b))

\* the default comparison of Array.prototype.sort: by code units
StringLess(a, b) == CodeLess(CodeUnits(a), CodeUnits(b))

RECURSIVE Insert(_, _)
Insert(x, sorted) ==
  IF Len(sorted) = 0 THEN <<x>>
  ELSE IF StringLess(x, sorted[1]) THEN <<x>> \o sorted
  ELSE <<sorted[1]>> \o Insert(x, Tail(sorted))

RECURSIVE SortInsert(_)
SortInsert(seq) ==
  IF Len(seq) = 0 THEN <<>> ELSE Insert(seq[1], SortInsert(Tail(seq)))

\* Array.prototype.sort() on an array of strings
Sort(seq) == SortInsert(seq)

\* the header object with the token header set unconditionally
BuildHeadersAlwaysToken(host, amzDate, contentHash, sessionToken) ==
  SetProp(Obj(<<Prop("content-type", Str("application/json")),
                Prop("host", Str(host)),
                Prop("x-amz-date", Str(amzDate)),
                Prop("x-amz-content-sha256", Str(contentHash))>>),
          "x-amz-security-token", Or(sessionToken, Str("")))

\* the header object of signedRequest before signing
BuildHeaders(host, amzDate, contentHash, sessionToken) ==
  LET headers == Obj(<<Prop("content-type", Str("application/json")),
                       Prop("host", Str(host)),
                       Prop("x-amz-date", Str(amzDate)),
                       Prop("x-amz-content-sha256", Str(contentHash))>>)
  IN IF Truthy(sessionToken)
     THEN SetProp(headers, "x-amz-security-token", sessionToken)
     ELSE headers

\* Object.keys(headers), in insertion order
UnsortedHeaderNames(headers) == ObjectKeys(headers)

\* Object.keys(headers).sort()
SortedHeaderNames(headers) == Sort(ObjectKeys(headers))

\* bodyStr of signedRequest
BodyStr(body) == IF Truthy(body) THEN JSONstringify(body) ELSE Str("")

\* signedRequest is computed in steps, each adding to the values c computed so
\* far.  The first values: region, timestamp, serialized body and its hash.
SigningContext(a, now) ==
  [method |-> a.method,
   path |-> a.path,
   accessKeyId |-> a.accessKeyId,
   secretAccessKey |-> a.secretAccessKey,
   sessionToken |-> a.sessionToken,
   region |-> TemplateStr(a.region),
   host |-> "braket." \o TemplateStr(a.region) \o ".amazonaws.com",
   amzDate |-> Concat(getAmzDate(now)),
   dateStamp |-> Substring0(getAmzDate(now), 8),
   bodyStr |-> BodyStr(a.body),
   contentHash |-> Sha256Hex(Text(BodyStr(a.body)))]

\* headers, and Object.keys(headers).sort()
WithHeaders(c) ==
  c @@ [unsigned |-> BuildHeaders(c.host, c.amzDate, c.contentHash, c.sessionToken),
        canonicalNames |->
          SortedHeaderNames(BuildHeaders(c.host, c.amzDate, c.contentHash, c.sessionToken))]

\* signedHeaders, canonicalHeaders and credentialScope
WithCanonicalHeaders(c) ==
  c @@ [signedHeaders |-> JoinStr(c.canonicalNames, ";"),
        canonicalLines |-> [i \in 1..Len(c.canonicalNames) |->
                             Prop(c.canonicalNames[i],
                                  GetProp(c.unsigned, c.canonicalNames[i]))],
        canonicalHeaders |->
          JoinStr([i \in 1..Len(c.canonicalNames) |->
                    c.canonicalNames[i] \o ":"
                      \o TemplateStr(GetProp(c.unsigned, c.canonicalNames[i])) \o "\n"], ""),
        credentialScope |->
          c.dateStamp \o "/" \o c.region \o "/" \o SERVICE \o "/aws4_request"]

\* canonicalRequest, as its lines
WithCanonicalRequest(c) ==
  c @@ [canonicalParts |->
          <<c.method, c.path, "", c.canonicalHeaders, c.signedHeaders, c.contentHash>>]

\* stringToSign, signingKey and signature
WithSignature(c) ==
  c @@ [signature |->
          sign(getSignatureKey(TemplateStr(c.secretAccessKey), c.dateStamp, c.region,
                               SERVICE),
               JoinStr(<<"AWS4-HMAC-SHA256", c.amzDate, c.credentialScope,
                         Sha256Hex(JoinStr(c.canonicalParts, "\n"))>>, "\n"))]

\* the authorization header
WithAuthorization(c) ==
  c @@ [authorization |->
          "AWS4-HMAC-SHA256 Credential=" \o TemplateStr(c.accessKeyId) \o "/"
            \o c.credentialScope \o ", SignedHeaders=" \o c.signedHeaders
            \o ", Signature=" \o c.signature]

\* the returned endpoint, headers and bodyStr, with the intermediate values
SignedResult(c) ==
  [endpoint |-> "https://" \o c.host \o c.path,
   headers |-> SetProp(c.unsigned, "authorization", Str(c.authorization)),
   bodyStr |-> c.bodyStr,
   host |-> c.host,
   canonicalNames |-> c.canonicalNames,
   canonicalLines |-> c.canonicalLines,
   signedHeaders |-> c.signedHeaders,
   canonicalParts |-> c.canonicalParts,
   credentialScope |-> c.credentialScope,
   signature |-> c.signature,
   authorization |-> c.authorization]

\* signedRequest; a is the argument object, now the clock
signedRequest(a, now) ==
  SignedResult(
    WithAuthorization(
      WithSignature(
        WithCanonicalRequest(
          WithCanonicalHeaders(
            WithHeaders(
              SigningContext(a, now)))))))

-----------------------------------------------------------------------------
(* Config store (src/src/config.js) *)

ConfigKeys == {"accessKeyId", "secretAccessKey", "sessionToken", "region"}

\* config.get(key)
getConfig(key) == IF key \in DOMAIN config THEN config[key] ELSE Undef

\* the store after config.set(key, value)
setConfig(store, key, value) == [store EXCEPT ![key] = value]

isConfigured == Truthy(getConfig("accessKeyId")) /\ Truthy(getConfig("secretAccessKey"))

-----------------------------------------------------------------------------
(* Errors and completions *)

\* an Error object: its identity, its message and the fields axios adds
ErrorObject(ident, message, hasResponse, status, data, hasRequest) ==
  [ident |-> ident, message |-> message, hasResponse |-> hasResponse,
   status |-> status, data |-> data, hasRequest |-> hasRequest]

\* new Error(message)
NewError(message) == ErrorObject("new Error", message, FALSE, 0, Undef, FALSE)

\* the TypeError of a property read on null or undefined
NewTypeError(key) ==
  ErrorObject("new TypeError", "Cannot read properties of null or undefined (reading '"
                                 \o key \o "')", FALSE, 0, Undef, FALSE)

NoError == ErrorObject("none", "", FALSE, 0, Undef, FALSE)

Return(v) == [kind |-> "return", value |-> v, error |-> NoError]

Throw(e) == [kind |-> "throw", value |-> Undef, error |-> e]

\* v.key as a completion: a TypeError on null and undefined
ReadProp(v, key) ==
  IF v.t \in {"undefined", "null"} THEN Throw(NewTypeError(key)) ELSE Return(GetProp(v, key))

-----------------------------------------------------------------------------
(* API client *)

CredentialsMessage ==
  "AWS credentials not configured. Run: awsbraket config set --access-key-id <id> --secret-access-key <secret>"

AuthenticationMessage == "Authentication failed. Check your AWS credentials."

NotFoundMessage == "Resource not found."

RateLimitMessage == "Rate limit exceeded. Please wait before retrying."

NoResponseMessage ==
  "No response from AWS Braket API. Check your internet connection and region."

\* the generic message without the `data?.Message` alternative
ApiErrorMessageLowerCaseOnly(status, data) ==
  LET message == Or(OptProp(data, "message"), JSONstringify(data))
  IN "API Error (" \o ToString(status) \o "): " \o TemplateStr(message)

\* the message of the generic API failure
ApiErrorMessage(status, data) ==
  LET message == Or(OptProp(data, "message"),
                    Or(OptProp(data, "Message"), JSONstringify(data)))
  IN "API Error (" \o ToString(status) \o "): " \o TemplateStr(message)

\* handleApiError whose last branch returns instead of throwing
handleApiErrorSwallowing(error) ==
  IF error.hasResponse
  THEN LET status == error.status
           data == error.data
       IN IF status = 401 \/ status = 403 THEN Throw(NewError(AuthenticationMessage))
          ELSE IF status = 404 THEN Throw(NewError(NotFoundMessage))
          ELSE IF status = 429 THEN Throw(NewError(RateLimitMessage))
          ELSE Throw(NewError(ApiErrorMessage(status, data)))
  ELSE IF error.hasRequest
  THEN Throw(NewError(NoResponseMessage))
  ELSE Return(Undef)

\* handleApiError that classifies 401 only as an authentication failure
handleApiErrorOnly401(error) ==
  IF error.hasResponse
  THEN LET status == error.status
           data == error.data
       IN IF status = 401 THEN Throw(NewError(AuthenticationMessage))
          ELSE IF status = 404 THEN Throw(NewError(NotFoundMessage))
          ELSE IF status = 429 THEN Throw(NewError(RateLimitMessage))
          ELSE Throw(NewError(ApiErrorMessage(status, data)))
  ELSE IF error.hasRequest
  THEN Throw(NewError(NoResponseMessage))
  ELSE Throw(error)

\* handleApiError that wraps the unclassified error in a new Error
handleApiErrorWrapping(error) ==
  IF error.hasResponse
  THEN LET status == error.status
           data == error.data
       IN IF status = 401 \/ status = 403 THEN Throw(NewError(AuthenticationMessage))
          ELSE IF status = 404 THEN Throw(NewError(NotFoundMessage))
          ELSE IF status = 429 THEN Throw(NewError(RateLimitMessage))
          ELSE Throw(NewError(ApiErrorMessage(status, data)))
  ELSE IF error.hasRequest
  THEN Throw(NewError(NoResponseMessage))
  ELSE Throw(NewError(error.message))

\* handleApiError: the completion of the call (every branch throws)
handleApiError(error) ==
  IF error.hasResponse
  THEN LET status == error.status
           data == error.data
       IN IF status = 401 \/ status = 403 THEN Throw(NewError(AuthenticationMessage))
          ELSE IF status = 404 THEN Throw(NewError(NotFoundMessage))
          ELSE IF status = 429 THEN Throw(NewError(RateLimitMessage))
          ELSE Throw(NewError(ApiErrorMessage(status, data)))
  ELSE IF error.hasRequest
  THEN Throw(NewError(NoResponseMessage))
  ELSE Throw(error)

\* axios(request) under the outcome the network produces: a response with a
\* 2xx status resolves, any other response rejects with error.response set,
\* no response rejects with error.request set, a failure before the request
\* is built rejects with neither
axios(request, outcome) ==
  CASE outcome.type = "response" /\ outcome.status >= 200 /\ outcome.status < 300 ->
         Return(outcome.data)
    [] outcome.type = "response" /\ ~(outcome.status >= 200 /\ outcome.status < 300) ->
         Throw(ErrorObject("AxiosError", "Request failed with status code "
                             \o ToString(outcome.status),
                           TRUE, outcome.status, outcome.data, TRUE))
    [] outcome.type = "noResponse" ->
         Throw(ErrorObject("AxiosError", outcome.message, FALSE, 0, Undef, TRUE))
    [] outcome.type = "local" ->
         Throw(ErrorObject(outcome.ident, outcome.message, FALSE, 0, Undef, FALSE))

\* the axios argument with `data: bodyStr`, without `|| undefined`
AxiosRequestAlwaysData(method, signed, params) ==
  [method |-> method,
   url |-> signed.endpoint,
   headers |-> signed.headers,
   data |-> signed.bodyStr,
   params |-> Or(params, Undef)]

\* the argument of the axios call of apiRequest
AxiosRequest(method, signed, params) ==
  [method |-> method,
   url |-> signed.endpoint,
   headers |-> signed.headers,
   data |-> Or(signed.bodyStr, Undef),
   params |-> Or(params, Undef)]

\* the guard as `!accessKeyId && !secretAccessKey`
CredentialsMissingBoth(accessKeyId, secretAccessKey) ==
  ~Truthy(accessKeyId) /\ ~Truthy(secretAccessKey)

\* the guard of apiRequest: a credential is missing
CredentialsMissing(accessKeyId, secretAccessKey) ==
  ~Truthy(accessKeyId) \/ ~Truthy(secretAccessKey)

\* the value of a parameter with the default null
DefaultNull(v) == IF v = Undef THEN Null ELSE v

\* Run(signs, calls, c): what a call did: the results of its signedRequest
\* calls, the requests it handed to axios, and its completion
Run(signs, calls, c) ==
  [signs |-> signs, calls |-> calls, kind |-> c.kind, value |-> c.value, error |-> c.error]

\* the end of the catch block of apiRequest: handled is the completion of
\* handleApiError(error)
Caught(signed, request, handled) ==
  IF handled.kind = "throw"
  THEN Run(<<signed>>, <<request>>, handled)
  ELSE Run(<<signed>>, <<request>>, Return(Undef))

\* the try and catch of apiRequest: response is the completion of the axios call
Settle(signed, request, response) ==
  IF response.kind = "return"
  THEN Run(<<signed>>, <<request>>, Return(response.value))
  ELSE Caught(signed, request, handleApiError(response.error))

\* the axios call of apiRequest
Send(signed, request, outcome) == Settle(signed, request, axios(request, outcome))

\* apiRequest after the credentials guard
SignAndSend(method, signed, params, outcome) ==
  Send(signed, AxiosRequest(method, signed, params), outcome)

\* apiRequest handing the signer the path with the query parameters appended
apiRequestSigningQuery(method, path, body, params, env) ==
  IF CredentialsMissing(getConfig("accessKeyId"), getConfig("secretAccessKey"))
  THEN Run(<<>>, <<>>, Throw(NewError(CredentialsMessage)))
  ELSE SignAndSend(method,
                   signedRequest([method |-> method,
                                  path |-> path \o "?"
                                             \o Text(JSONstringify(DefaultNull(params))),
                                  body |-> DefaultNull(body),
                                  region |-> Or(getConfig("region"), Str("us-east-1")),
                                  accessKeyId |-> getConfig("accessKeyId"),
                                  secretAccessKey |-> getConfig("secretAccessKey"),
                                  sessionToken |-> getConfig("sessionToken")], env.now),
                   DefaultNull(params), env.outcome)

\* apiRequest(method, path, body, params); env is the clock and the outcome
\* of the network
apiRequest(method, path, body, params, env) ==
  IF CredentialsMissing(getConfig("accessKeyId"), getConfig("secretAccessKey"))
  THEN Run(<<>>, <<>>, Throw(NewError(CredentialsMessage)))
  ELSE SignAndSend(method,
                   signedRequest([method |-> method,
                                  path |-> path,
                                  body |-> DefaultNull(body),
                                  region |-> Or(getConfig("region"), Str("us-east-1")),
                                  accessKeyId |-> getConfig("accessKeyId"),
                                  secretAccessKey |-> getConfig("secretAccessKey"),
                                  sessionToken |-> getConfig("sessionToken")], env.now),
                   DefaultNull(params), env.outcome)

\* `return data.key` without the default
ListFieldNoDefault(run, key) ==
  IF run.kind = "throw" THEN run
  ELSE LET read == ReadProp(run.value, key)
       IN IF read.kind = "throw" THEN Run(run.signs, run.calls, read)
          ELSE Run(run.signs, run.calls, Return(read.value))

\* `const data = await apiRequest(...); return data.key || []`
ListField(run, key) ==
  IF run.kind = "throw" THEN run
  ELSE LET read == ReadProp(run.value, key)
       IN IF read.kind = "throw" THEN Run(run.signs, run.calls, read)
          ELSE Run(run.signs, run.calls, Return(Or(read.value, Arr(<<>>))))

\* listQuantumTasks with the filters property set whether or not a status is given
listQuantumTasksAlwaysFilters(a, env) ==
  LET maxResults == IF a.maxResults = Undef THEN Num(10) ELSE a.maxResults
      body0 == Obj(<<Prop("maxResults", maxResults)>>)
      body1 == IF Truthy(a.deviceArn) THEN SetProp(body0, "deviceArn", a.deviceArn) ELSE body0
      body == SetProp(body1, "filters",
                      Arr(<<Obj(<<Prop("name", Str("status")),
                                  Prop("values", Arr(<<a.status>>))>>)>>))
  IN ListField(apiRequest("POST", "/quantum-tasks", body, Undef, env), "quantumTasks")

listQuantumTasks(a, env) ==
  LET maxResults == IF a.maxResults = Undef THEN Num(10) ELSE a.maxResults
      body0 == Obj(<<Prop("maxResults", maxResults)>>)
      body1 == IF Truthy(a.deviceArn) THEN SetProp(body0, "deviceArn", a.deviceArn) ELSE body0
      body == IF Truthy(a.status)
              THEN SetProp(body1, "filters",
                           Arr(<<Obj(<<Prop("name", Str("status")),
                                       Prop("values", Arr(<<a.status>>))>>)>>))
              ELSE body1
  IN ListField(apiRequest("POST", "/quantum-tasks", body, Undef, env), "quantumTasks")

getQuantumTask(taskId, env) ==
  apiRequest("GET", "/quantum-tasks/" \o encodeURIComponent(taskId), Undef, Undef, env)

createQuantumTask(a, env) ==
  LET body == Obj(<<Prop("deviceArn", a.deviceArn),
                    Prop("shots", a.shots),
                    Prop("outputS3Bucket", a.outputS3Bucket),
                    Prop("outputS3KeyPrefix", a.outputS3KeyPrefix),
                    Prop("action", IF a.action.t = "string" THEN a.action
                                   ELSE JSONstringify(a.action))>>)
  IN apiRequest("POST", "/quantum-tasks", body, Undef, env)

cancelQuantumTask(taskId, env) ==
  apiRequest("PUT", "/quantum-tasks/" \o encodeURIComponent(taskId) \o "/cancel",
             Undef, Undef, env)

listDevices(a, env) ==
  LET f0 == <<>>
      f1 == IF Truthy(a.type)
            THEN Append(f0, Obj(<<Prop("name", Str("deviceType")),
                                  Prop("values", Arr(<<a.type>>))>>))
            ELSE f0
      f2 == IF Truthy(a.provider)
            THEN Append(f1, Obj(<<Prop("name", Str("providerName")),
                                  Prop("values", Arr(<<a.provider>>))>>))
            ELSE f1
      filters == IF Truthy(a.status)
                 THEN Append(f2, Obj(<<Prop("name", Str("deviceStatus")),
                                       Prop("values", Arr(<<a.status>>))>>))
                 ELSE f2
      body == IF Len(filters) # 0 THEN Obj(<<Prop("filters", Arr(filters))>>) ELSE Obj(<<>>)
  IN ListField(apiRequest("POST", "/devices", body, Undef, env), "devices")

getDevice(deviceArn, env) ==
  apiRequest("GET", "/devices/" \o encodeURIComponent(deviceArn), Undef, Undef, env)

createJob(a, env) ==
  LET body0 == Obj(<<Prop("algorithmSpecification", a.algorithmSpecification),
                     Prop("instanceConfig", a.instanceConfig),
                     Prop("jobName", a.jobName),
                     Prop("outputDataConfig", a.outputDataConfig),
                     Prop("roleArn", a.roleArn)>>)
      body == IF Truthy(a.checkpointConfig)
              THEN SetProp(body0, "checkpointConfig", a.checkpointConfig)
              ELSE body0
  IN apiRequest("POST", "/jobs", body, Undef, env)

getJob(jobName, env) ==
  apiRequest("GET", "/jobs/" \o encodeURIComponent(jobName), Undef, Undef, env)

\* listing jobs the way tasks are listed: a POST with a filters array in the body
listJobsByPost(a, env) ==
  LET maxResults == IF a.maxResults = Undef THEN Num(10) ELSE a.maxResults
      body0 == Obj(<<Prop("maxResults", maxResults)>>)
      body == IF Truthy(a.state)
              THEN SetProp(body0, "filters",
                           Arr(<<Obj(<<Prop("name", Str("state")),
                                       Prop("values", Arr(<<a.state>>))>>)>>))
              ELSE body0
  IN ListField(apiRequest("POST", "/jobs", body, Undef, env), "jobs")

listJobs(a, env) ==
  LET maxResults == IF a.maxResults = Undef THEN Num(10) ELSE a.maxResults
      params0 == Obj(<<Prop("maxResults", maxResults)>>)
      params == IF Truthy(a.state)
                THEN SetProp(params0, "filters", StrC(<<"state:">> \o Pieces(a.state)))
                ELSE params0
  IN ListField(apiRequest("GET", "/jobs", Null, params, env), "jobs")

cancelJob(jobName, env) ==
  apiRequest("PUT", "/jobs/" \o encodeURIComponent(jobName) \o "/cancel", Undef, Undef, env)

-----------------------------------------------------------------------------
(* CLI command handlers *)

RequireAuthMessage == "AWS credentials not configured."

NoOptionsMessage ==
  "No options provided. Use --access-key-id, --secret-access-key, --region, or --session-token"

KeyNotFoundMessage(key) == "Key '" \o key \o "' not found"

DigitValue(c) ==
  CASE c = "0" -> 0 [] c = "1" -> 1 [] c = "2" -> 2 [] c = "3" -> 3 [] c = "4" -> 4
    [] c = "5" -> 5 [] c = "6" -> 6 [] c = "7" -> 7 [] c = "8" -> 8 [] c = "9" -> 9

RECURSIVE ParseDigits(_, _)
ParseDigits(chars, acc) ==
  IF Len(chars) = 0 THEN acc ELSE ParseDigits(Tail(chars), acc * 10 + DigitValue(chars[1]))

\* parseInt of a string of decimal digits
parseInt(chars) == Num(ParseDigits(chars, 0))

\* what a command did: the run of its API operation, the exit code and the
\* error lines
Outcome(run, code, errors) == [run |-> run, exitCode |-> code, stderr |-> errors]

NoRun == Run(<<>>, <<>>, [kind |-> "none", value |-> Undef, error |-> NoError])

\* printTable(data, columns): a completion
printTable(data) ==
  IF ~Truthy(data) \/ (data.t = "array" /\ Len(data.a) = 0) THEN Return(Undef)
  ELSE IF data.t # "array" THEN Throw(NewTypeError("forEach"))
  ELSE IF \E i \in 1..Len(data.a) : data.a[i].t \in {"undefined", "null"}
  THEN Throw(NewTypeError("row"))
  ELSE Return(Undef)

\* the detail view of a command: it reads the fields of the result
printDetails(value, firstKey) ==
  LET read == ReadProp(value, firstKey)
  IN IF read.kind = "throw" THEN read ELSE Return(Undef)

\* an action handler of an authenticated command: requireAuth(), then the
\* try block (the API operation and the rendering of its result), then the
\* catch block.  run is the run of the API operation, rendered the completion
\* of the rendering of its value.
AuthenticatedCommand(run, rendered) ==
  IF ~isConfigured
  THEN Outcome(NoRun, 1, <<RequireAuthMessage>>)
  ELSE IF run.kind = "throw"
  THEN Outcome(run, 1, <<run.error.message>>)
  ELSE IF rendered.kind = "throw"
  THEN Outcome(run, 1, <<rendered.error.message>>)
  ELSE Outcome(run, 0, <<>>)

\* `if (options.json) { printJson(x); return; }` and the rendering after it
Rendering(json, rendered) == IF Truthy(json) THEN Return(Undef) ELSE rendered

\* a command that prints the list of run as JSON or as a table
ListCommand(run, json) ==
  AuthenticatedCommand(run, Rendering(json, printTable(run.value)))

\* a command that prints the result of run as JSON or as details
DetailsCommand(run, json, firstKey) ==
  AuthenticatedCommand(run, Rendering(json, printDetails(run.value, firstKey)))

\* config set storing every option, given or not
configSetAssignAll(o) ==
  [store |-> setConfig(setConfig(setConfig(setConfig(config,
                "accessKeyId", o.accessKeyId),
                "secretAccessKey", o.secretAccessKey),
                "sessionToken", o.sessionToken),
                "region", o.region),
   outcome |->
     IF ~Truthy(o.accessKeyId) /\ ~Truthy(o.secretAccessKey)
          /\ ~Truthy(o.sessionToken) /\ ~Truthy(o.region)
     THEN Outcome(NoRun, 0, <<NoOptionsMessage>>)
     ELSE Outcome(NoRun, 0, <<>>)]

\* config set: the store and the error lines after the handler
configSet(o) ==
  LET s1 == IF Truthy(o.accessKeyId)
            THEN setConfig(config, "accessKeyId", o.accessKeyId) ELSE config
      s2 == IF Truthy(o.secretAccessKey)
            THEN setConfig(s1, "secretAccessKey", o.secretAccessKey) ELSE s1
      s3 == IF Truthy(o.sessionToken)
            THEN setConfig(s2, "sessionToken", o.sessionToken) ELSE s2
      s4 == IF Truthy(o.region) THEN setConfig(s3, "region", o.region) ELSE s3
  IN [store |-> s4,
      outcome |->
        IF ~Truthy(o.accessKeyId) /\ ~Truthy(o.secretAccessKey)
             /\ ~Truthy(o.sessionToken) /\ ~Truthy(o.region)
        THEN Outcome(NoRun, 0, <<NoOptionsMessage>>)
        ELSE Outcome(NoRun, 0, <<>>)]

\* config get <key>
configGet(key) ==
  LET value == getConfig(key)
  IN IF value = Undef
     THEN Outcome(NoRun, 0, <<KeyNotFoundMessage(key)>>)
     ELSE Outcome(NoRun, 0, <<>>)

\* config list
configList == Outcome(NoRun, 0, <<>>)

tasksList(o, env) ==
  ListCommand(listQuantumTasks([deviceArn |-> o.deviceArn, status |-> o.status,
                                maxResults |-> parseInt(o.maxResults)], env),
              o.json)

tasksGet(taskArn, o, env) ==
  DetailsCommand(getQuantumTask(taskArn, env), o.json, "quantumTaskArn")

\* the canned program without its inputs property
BellStateActionWithoutInputs ==
  Obj(<<Prop("braketSchemaHeader",
             Obj(<<Prop("name", Str("braket.ir.openqasm.program")),
                   Prop("version", Str("1"))>>)),
        Prop("source",
             StrC(<<"OPENQASM 3.0;", "\n", "qubit[2] q;", "\n", "h q[0];", "\n",
                    "cnot q[0], q[1];", "\n",
                    "#pragma braket result probability q[0], q[1]">>))>>)

BellStateAction ==
  Obj(<<Prop("braketSchemaHeader",
             Obj(<<Prop("name", Str("braket.ir.openqasm.program")),
                   Prop("version", Str("1"))>>)),
        Prop("source",
             StrC(<<"OPENQASM 3.0;", "\n", "qubit[2] q;", "\n", "h q[0];", "\n",
                    "cnot q[0], q[1];", "\n",
                    "#pragma braket result probability q[0], q[1]">>)),
        Prop("inputs", Obj(<<>>))>>)

tasksCreate(o, env) ==
  DetailsCommand(
    createQuantumTask([deviceArn |-> o.deviceArn,
                       shots |-> parseInt(o.shots),
                       outputS3Bucket |-> o.s3Bucket,
                       outputS3KeyPrefix |-> o.s3Prefix,
                       action |-> IF ~Truthy(o.action)
                                  THEN JSONstringify(BellStateAction)
                                  ELSE o.action], env),
    o.json, "quantumTaskArn")

tasksCancel(taskArn, o, env) ==
  DetailsCommand(cancelQuantumTask(taskArn, env), o.json, "cancellationStatus")

devicesList(o, env) ==
  ListCommand(listDevices([type |-> o.type, provider |-> o.provider,
                           status |-> o.status], env),
              o.json)

devicesGet(deviceArn, o, env) ==
  DetailsCommand(getDevice(deviceArn, env), o.json, "deviceName")

circuitsList(o, env) ==
  ListCommand(listJobs([maxResults |-> parseInt(o.maxResults), state |-> o.state], env),
              o.json)

circuitsGet(jobName, o, env) ==
  DetailsCommand(getJob(jobName, env), o.json, "jobName")

circuitsCreate(o, env) ==
  DetailsCommand(
    createJob(
      [jobName |-> StrC(o.jobName),
       roleArn |-> o.roleArn,
       outputDataConfig |->
         Obj(<<Prop("s3Path", StrC(<<"s3://">> \o Pieces(o.outputBucket) \o <<"/jobs/">>
                                     \o o.jobName))>>),
       algorithmSpecification |->
         Obj(<<Prop("scriptModeConfig",
                    Obj(<<Prop("entryPoint", Str("algorithm:main")),
                          Prop("s3Uri",
                               Or(o.scriptUri,
                                  StrC(<<"s3://">> \o Pieces(o.outputBucket)
                                         \o <<"/scripts/algorithm.py">>)))>>))>>),
       instanceConfig |->
         Obj(<<Prop("instanceType", o.instanceType),
               Prop("volumeSizeInGb", Num(1))>>),
       checkpointConfig |-> Undef], env),
    o.json, "jobArn")

circuitsCancel(jobName, env) == AuthenticatedCommand(cancelJob(jobName, env), Return(Undef))

-----------------------------------------------------------------------------
(* Inputs *)

\* the longest list a response carries
MaxItems == 1

\* the instants the clock shows
Clock ==
  {[Y |-> "2026", M |-> "11", D |-> "02", h |-> "18", m |-> "10", s |-> "00", ms |-> "123"],
   [Y |-> "2027", M |-> "01", D |-> "31", h |-> "07", m |-> "05", s |-> "59", ms |-> "000"]}

ErrorStatuses == {400, 401, 403, 404, 429, 500}

Items(n) == [i \in 1..n |-> Obj(<<Prop("id", Num(i))>>)]

\* payloads of 2xx responses
SuccessData ==
  {Obj(<<Prop(key, Arr(Items(n))), Prop("nextToken", Str("n1"))>>) :
     key \in {"quantumTasks", "devices", "jobs"}, n \in 0..MaxItems}
  \cup {Obj(<<Prop("quantumTaskArn", Str("arn-1")), Prop("status", Str("CREATED"))>>),
        Obj(<<>>), Null, Str("")}

\* bodies of error responses
ErrorData ==
  {Obj(<<Prop("message", Str("boom"))>>),
   Obj(<<Prop("Message", Str("Denied"))>>),
   Obj(<<Prop("message", Str("")), Prop("Message", Str("Denied"))>>),
   Obj(<<Prop("code", Str("E1"))>>),
   Obj(<<Prop("message", Str(NoResponseMessage))>>),
   Str("Bad Gateway"),
   Str(""),
   Null}

\* what the network does with a request
Outcomes ==
  {[type |-> "response", status |-> 200, data |-> d, ident |-> "", message |-> ""] :
     d \in SuccessData}
  \cup {[type |-> "response", status |-> st, data |-> d, ident |-> "", message |-> ""] :
          st \in ErrorStatuses, d \in ErrorData}
  \cup {[type |-> "noResponse", status |-> 0, data |-> Undef, ident |-> "",
         message |-> "getaddrinfo ENOTFOUND"]}
  \cup {[type |-> "local", status |-> 0, data |-> Undef, ident |-> id,
         message |-> "Invalid URL"] : id \in {"local-1", "local-2"}}

Envs == [now : Clock, outcome : Outcomes]

NoEnv ==
  [now |-> [Y |-> "", M |-> "", D |-> "", h |-> "", m |-> "", s |-> "", ms |-> ""],
   outcome |-> [type |-> "none", status |-> 0, data |-> Undef, ident |-> "", message |-> ""]]

\* resource identifiers, as characters
Identifiers == {<<"t", "1">>, <<"a", ":", "b", "/", "c">>}

Optional(v) == {Undef, v}

ListTasksArgs ==
  [deviceArn : Optional(Str("arn:aws:braket:::device/qpu/ionq/ionQdevice")),
   status : {Undef, Str(""), Str("COMPLETED")},
   maxResults : Optional(Num(5))]

CreateTaskArgs ==
  [deviceArn : {Str("arn:aws:braket:::device/quantum-simulator/amazon/sv1")},
   shots : {Num(100)},
   outputS3Bucket : {Str("bucket")},
   outputS3KeyPrefix : {Str("braket-results")},
   action : {Undef, Str("program"), Obj(<<Prop("source", Str("OPENQASM 3.0;"))>>)}]

ListDevicesArgs ==
  [type : Optional(Str("QPU")), provider : Optional(Str("IonQ")),
   status : Optional(Str("ONLINE"))]

CreateJobArgs ==
  [algorithmSpecification : {Obj(<<Prop("scriptModeConfig", Obj(<<>>))>>)},
   instanceConfig : {Obj(<<Prop("instanceType", Str("ml.m5.large"))>>)},
   jobName : {Str("job-1")},
   outputDataConfig : {Obj(<<Prop("s3Path", Str("s3://bucket/jobs/job-1"))>>)},
   roleArn : {Str("arn:aws:iam::role/braket")},
   checkpointConfig : Optional(Obj(<<Prop("s3Uri", Str("s3://bucket/checkpoints"))>>))]

ListJobsArgs == [maxResults : Optional(Num(5)), state : {Undef, Str(""), Str("RUNNING")}]

ConfigSetOptions ==
  [accessKeyId : {Undef, Str(""), Str("AKIAEXAMPLE")},
   secretAccessKey : {Undef, Str(""), Str("secret")},
   sessionToken : {Undef, Str(""), Str("token")},
   region : {Undef, Str(""), Str("eu-west-2")}]

Flags == {Undef, Bool(TRUE)}

TasksListOptions ==
  [deviceArn : Optional(Str("arn:aws:braket:::device/qpu/ionq/ionQdevice")),
   status : Optional(Str("COMPLETED")),
   maxResults : {<<"1", "0">>},
   json : Flags]

TasksCreateOptions ==
  [deviceArn : {Str("arn:aws:braket:::device/quantum-simulator/amazon/sv1")},
   shots : {<<"1", "0", "0">>},
   s3Bucket : {Str("bucket")},
   s3Prefix : {Str("braket-results")},
   action : Optional(Str("program")),
   json : Flags]

DevicesListOptions ==
  [type : Optional(Str("QPU")), provider : Optional(Str("IonQ")),
   status : Optional(Str("ONLINE")), json : Flags]

CircuitsListOptions ==
  [state : Optional(Str("RUNNING")), maxResults : {<<"1", "0">>, <<"5">>}, json : Flags]

CircuitsCreateOptions ==
  [jobName : {<<"job-1">>},
   roleArn : {Str("arn:aws:iam::role/braket")},
   outputBucket : {Str("bucket")},
   instanceType : {Str("ml.m5.large")},
   scriptUri : Optional(Str("s3://bucket/scripts/vqe.py")),
   json : Flags]

JsonOption == [json : Flags]

-----------------------------------------------------------------------------
(* State machine *)

NoInvocation == [level |-> "none", op |-> "none", args |-> <<>>, env |-> NoEnv]

Init ==
  /\ config = [k \in ConfigKeys |-> Undef]
  /\ pc = "idle"
  /\ invocation = NoInvocation
  /\ signerLog = <<>>
  /\ httpLog = <<>>
  /\ completion = [kind |-> "none", value |-> Undef, error |-> NoError]
  /\ exitCode = 0
  /\ stderr = <<>>

\* the record of a call or command that ran to its end; the clock and the
\* network are part of it when the call got as far as reading them
Finish(level, op, args, env, out) ==
  /\ pc' = "done"
  /\ invocation' = [level |-> level, op |-> op, args |-> args,
                    env |-> IF Len(out.run.signs) = 0 THEN NoEnv ELSE env]
  /\ signerLog' = out.run.signs
  /\ httpLog' = out.run.calls
  /\ completion' = [kind |-> out.run.kind, value |-> out.run.value, error |-> out.run.error]
  /\ exitCode' = out.exitCode
  /\ stderr' = out.stderr

\* a call of an exported API operation
ApiCall(op, args, env, run) ==
  /\ Finish("api", op, args, env, Outcome(run, 0, <<>>))
  /\ UNCHANGED config

\* a CLI command that leaves the store alone
Command(op, args, env, out) ==
  /\ Finish("cli", op, args, env, out)
  /\ UNCHANGED config

\* the next process, or the next call, starts
Start ==
  /\ pc = "done"
  /\ pc' = "idle"
  /\ invocation' = NoInvocation
  /\ signerLog' = <<>>
  /\ httpLog' = <<>>
  /\ completion' = [kind |-> "none", value |-> Undef, error |-> NoError]
  /\ exitCode' = 0
  /\ stderr' = <<>>
  /\ UNCHANGED config

ListQuantumTasks ==
  /\ pc = "idle"
  /\ \E a \in ListTasksArgs, env \in Envs :
      ApiCall("listQuantumTasks", a, env, listQuantumTasks(a, env))

GetQuantumTask ==
  /\ pc = "idle"
  /\ \E id \in Identifiers, env \in Envs :
      ApiCall("getQuantumTask", id, env, getQuantumTask(id, env))

CreateQuantumTask ==
  /\ pc = "idle"
  /\ \E a \in CreateTaskArgs, env \in Envs :
      ApiCall("createQuantumTask", a, env, createQuantumTask(a, env))

CancelQuantumTask ==
  /\ pc = "idle"
  /\ \E id \in Identifiers, env \in Envs :
      ApiCall("cancelQuantumTask", id, env, cancelQuantumTask(id, env))

ListDevices ==
  /\ pc = "idle"
  /\ \E a \in ListDevicesArgs, env \in Envs :
      ApiCall("listDevices", a, env, listDevices(a, env))

GetDevice ==
  /\ pc = "idle"
  /\ \E id \in Identifiers, env \in Envs :
      ApiCall("getDevice", id, env, getDevice(id, env))

CreateJob ==
  /\ pc = "idle"
  /\ \E a \in CreateJobArgs, env \in Envs :
      ApiCall("createJob", a, env, createJob(a, env))

GetJob ==
  /\ pc = "idle"
  /\ \E id \in Identifiers, env \in Envs :
      ApiCall("getJob", id, env, getJob(id, env))

ListJobs ==
  /\ pc = "idle"
  /\ \E a \in ListJobsArgs, env \in Envs :
      ApiCall("listJobs", a, env, listJobs(a, env))

CancelJob ==
  /\ pc = "idle"
  /\ \E id \in Identifiers, env \in Envs :
      ApiCall("cancelJob", id, env, cancelJob(id, env))

ConfigSet ==
  /\ pc = "idle"
  /\ \E o \in ConfigSetOptions :
      /\ Finish("cli", "config set", o, NoEnv, configSet(o).outcome)
      /\ config' = configSet(o).store

ConfigGet ==
  /\ pc = "idle"
  /\ \E key \in ConfigKeys \cup {"profile"} :
      Command("config get", key, NoEnv, configGet(key))

ConfigList ==
  /\ pc = "idle"
  /\ Command("config list", <<>>, NoEnv, configList)

TasksList ==
  /\ pc = "idle"
  /\ \E o \in TasksListOptions, env \in Envs :
      Command("tasks list", o, env, tasksList(o, env))

TasksGet ==
  /\ pc = "idle"
  /\ \E id \in Identifiers, o \in JsonOption, env \in Envs :
      Command("tasks get", <<id, o>>, env, tasksGet(id, o, env))

TasksCreate ==
  /\ pc = "idle"
  /\ \E o \in TasksCreateOptions, env \in Envs :
      Command("tasks create", o, env, tasksCreate(o, env))

TasksCancel ==
  /\ pc = "idle"
  /\ \E id \in Identifiers, o \in JsonOption, env \in Envs :
      Command("tasks cancel", <<id, o>>, env, tasksCancel(id, o, env))

DevicesList ==
  /\ pc = "idle"
  /\ \E o \in DevicesListOptions, env \in Envs :
      Command("devices list", o, env, devicesList(o, env))

DevicesGet ==
  /\ pc = "idle"
  /\ \E id \in Identifiers, o \in JsonOption, env \in Envs :
      Command("devices get", <<id, o>>, env, devicesGet(id, o, env))

CircuitsList ==
  /\ pc = "idle"
  /\ \E o \in CircuitsListOptions, env \in Envs :
      Command("circuits list", o, env, circuitsList(o, env))

CircuitsGet ==
  /\ pc = "idle"
  /\ \E id \in Identifiers, o \in JsonOption, env \in Envs :
      Command("circuits get", <<id, o>>, env, circuitsGet(id, o, env))

CircuitsCreate ==
  /\ pc = "idle"
  /\ \E o \in CircuitsCreateOptions, env \in Envs :
      Command("circuits create", o, env, circuitsCreate(o, env))

CircuitsCancel ==
  /\ pc = "idle"
  /\ \E id \in Identifiers, env \in Envs :
      Command("circuits cancel", id, env, circuitsCancel(id, env))

Next ==
  \/ Start
  \/ ListQuantumTasks
  \/ GetQuantumTask
  \/ CreateQuantumTask
  \/ CancelQuantumTask
  \/ ListDevices
  \/ GetDevice
  \/ CreateJob
  \/ GetJob
  \/ ListJobs
  \/ CancelJob
  \/ ConfigSet
  \/ ConfigGet
  \/ ConfigList
  \/ TasksList
  \/ TasksGet
  \/ TasksCreate
  \/ TasksCancel
  \/ DevicesList
  \/ DevicesGet
  \/ CircuitsList
  \/ CircuitsGet
  \/ CircuitsCreate
  \/ CircuitsCancel

Spec == Init /\ [][Next]_vars

-----------------------------------------------------------------------------
(* The signer on its own: signedRequest applied to arguments of its contract, *)
(* a body of any JSON-serializable kind or none.                             *)

\* bodies: none, the falsy values, the empty containers, ordinary values
SignerBodies ==
  {Undef, Null, Num(0), Bool(FALSE), Str(""), Obj(<<>>), Arr(<<>>),
   Num(7), Bool(TRUE), StrC(<<"say ", "\"", "hi", "\"">>),
   Obj(<<Prop("maxResults", Num(10))>>)}

SignerArgs ==
  [method : {"GET", "POST", "PUT"},
   path : {"/jobs", "/quantum-tasks"},
   body : SignerBodies,
   region : {Str("us-east-1")},
   accessKeyId : {Str("AKIAEXAMPLE")},
   secretAccessKey : {Str("secret")},
   sessionToken : {Undef, Str("token")}]

\* the object signedRequest returns
SignerReturn(signed) ==
  Return(Obj(<<Prop("endpoint", Str(signed.endpoint)),
               Prop("headers", signed.headers),
               Prop("bodyStr", signed.bodyStr)>>))

\* a call of signedRequest that made no HTTP call
SignerRun(signed) == Outcome(Run(<<signed>>, <<>>, SignerReturn(signed)), 0, <<>>)

SignedRequest ==
  /\ pc = "idle"
  /\ \E a \in SignerArgs, now \in Clock :
      /\ Finish("signer", "signedRequest", a, [now |-> now, outcome |-> NoEnv.outcome],
                SignerRun(signedRequest(a, now)))
      /\ UNCHANGED config

SignerNext ==
  \/ Start
  \/ SignedRequest

SignerSpec == Init /\ [][SignerNext]_vars

-----------------------------------------------------------------------------
(* Two calls in a row: a program that lists jobs and lists them again, with   *)
(* the store unchanged in between; the logs keep both requests.              *)

\* the record of a further call: its requests are added to the logs
Repeated(op, args, env, run) ==
  /\ pc' = "done"
  /\ invocation' = [level |-> "api", op |-> op, args |-> args, env |-> env]
  /\ signerLog' = signerLog \o run.signs
  /\ httpLog' = httpLog \o run.calls
  /\ completion' = [kind |-> run.kind, value |-> run.value, error |-> run.error]
  /\ exitCode' = 0
  /\ stderr' = <<>>
  /\ UNCHANGED config

\* what the network does with the second request
AgainOutcomes ==
  {o \in Outcomes : o.type = "response" /\ o.status \in {200, 500} /\ o.data = Null}
  \cup {o \in Outcomes : o.type = "noResponse"}

\* the first listing returned, and the program lists again
ListJobsAgain ==
  /\ pc = "done"
  /\ invocation.level = "api"
  /\ invocation.op = "listJobs"
  /\ Len(signerLog) = 1
  /\ completion.kind = "return"
  /\ \E a \in ListJobsArgs, env \in [now : Clock, outcome : AgainOutcomes] :
      Repeated("listJobs", a, env, listJobs(a, env))

PairNext ==
  \/ Start
  \/ ConfigSet
  \/ ListJobs
  \/ ListJobsAgain

PairSpec == Init /\ [][PairNext]_vars

-----------------------------------------------------------------------------
(* Properties *)

ApiOperations ==
  {"listQuantumTasks", "getQuantumTask", "createQuantumTask", "cancelQuantumTask",
   "listDevices", "getDevice", "createJob", "getJob", "listJobs", "cancelJob"}

AuthenticatedCommands ==
  {"tasks list", "tasks get", "tasks create", "tasks cancel", "devices list",
   "devices get", "circuits list", "circuits get", "circuits create", "circuits cancel"}

ListOperations == {"listQuantumTasks", "listDevices", "listJobs"}

\* an exported API operation was called and has completed
ApiCalled == pc = "done" /\ invocation.level = "api" /\ invocation.op \in ApiOperations

\* a CLI command of an authenticated operation has run
AuthCommandRan ==
  pc = "done" /\ invocation.level = "cli" /\ invocation.op \in AuthenticatedCommands

\* an API operation was invoked, directly or by a command, and has completed
OperationRan == pc = "done" /\ completion.kind # "none"

HasCredentials == Truthy(config.accessKeyId) /\ Truthy(config.secretAccessKey)

\* the outcome the network had for the request, if one was sent
NetworkOutcome == invocation.env.outcome

\* a request was handed to axios
Sent == Len(httpLog) > 0

Received == Sent /\ NetworkOutcome.type = "response"

Success == Received /\ NetworkOutcome.status >= 200 /\ NetworkOutcome.status < 300

\* C1: with accessKeyId or secretAccessKey missing, every API operation fails
\* with the 'AWS credentials not configured' error, never calls the signer and
\* issues no HTTP call; the CLI commands of these operations stop in
\* requireAuth with the same outcome.
C1_FailFastWithoutCredentials ==
  /\ (ApiCalled /\ ~HasCredentials) =>
       /\ completion.kind = "throw"
       /\ completion.error = NewError(CredentialsMessage)
       /\ Len(signerLog) = 0
       /\ Len(httpLog) = 0
  /\ (AuthCommandRan /\ ~HasCredentials) =>
       /\ exitCode = 1
       /\ stderr = <<RequireAuthMessage>>
       /\ Len(signerLog) = 0
       /\ Len(httpLog) = 0

\* an operation called with the access key id stored and the secret missing
C1_Witness ==
  /\ ApiCalled
  /\ invocation.op = "createJob"
  /\ Truthy(config.accessKeyId)
  /\ ~Truthy(config.secretAccessKey)
  /\ completion.error.message = CredentialsMessage
  /\ Len(httpLog) = 0

\* C2: with credentials present every operation performs exactly one HTTP
\* call, whatever the outcome, and every outcome but a 2xx response makes the
\* operation throw.
C2_ExactlyOneCall ==
  (OperationRan /\ HasCredentials) =>
    /\ Len(httpLog) = 1
    /\ Len(signerLog) = 1
    /\ ~Success => completion.kind = "throw"

\* a rate-limited operation: one call, and the failure thrown
C2_Witness ==
  /\ ApiCalled
  /\ Received
  /\ NetworkOutcome.status = 429
  /\ Len(httpLog) = 1
  /\ completion.kind = "throw"

\* the texts the generic failure can take from a response body
DetailTexts(data) ==
  {TemplateStr(OptProp(data, "message")), TemplateStr(OptProp(data, "Message")),
   TemplateStr(JSONstringify(data))}

\* C3: status 401 and 403 give the 'Authentication failed' message, 404 the
\* 'Resource not found' message, 429 the 'Rate limit exceeded' message,
\* whatever the response body; 500 gives the generic failure with the status
\* code in its message.
C3_StatusClassification ==
  (OperationRan /\ Received) =>
    LET status == NetworkOutcome.status
        thrown == completion.kind = "throw" /\ completion.error.ident = "new Error"
        message == completion.error.message
    IN /\ status \in {401, 403} => thrown /\ message = AuthenticationMessage
       /\ status = 404 => thrown /\ message = NotFoundMessage
       /\ status = 429 => thrown /\ message = RateLimitMessage
       /\ status = 500 =>
            /\ thrown
            /\ \E d \in DetailTexts(NetworkOutcome.data) :
                 message = "API Error (500): " \o d

\* a 403 response with a message of its own, reported as an authentication
\* failure
C3_Witness ==
  /\ ApiCalled
  /\ Received
  /\ NetworkOutcome.status = 403
  /\ NetworkOutcome.data = Obj(<<Prop("message", Str("boom"))>>)
  /\ completion.error.message = AuthenticationMessage

\* the non-empty message fields of a response body
MessageFields(data) ==
  {k \in {"message", "Message"} : data.t = "object" /\ Truthy(GetProp(data, k))}

\* C4: a non-2xx response with a status other than 401, 403, 404 and 429
\* fails with 'API Error (<status>): ' followed by a message field of the
\* body when it has one (a non-empty message or Message), and by the
\* serialized response body otherwise.
C4_GenericApiFailure ==
  (OperationRan /\ Received /\ ~Success
     /\ NetworkOutcome.status \notin {401, 403, 404, 429}) =>
    LET data == NetworkOutcome.data
        prefix == "API Error (" \o ToString(NetworkOutcome.status) \o "): "
        message == completion.error.message
    IN /\ completion.kind = "throw"
       /\ IF MessageFields(data) # {}
          THEN \E k \in MessageFields(data) : message = prefix \o Text(GetProp(data, k))
          ELSE message = prefix \o Text(JSONstringify(data))

\* a 500 response whose body has the field Message only
C4_Witness ==
  /\ ApiCalled
  /\ Received
  /\ NetworkOutcome.status = 500
  /\ NetworkOutcome.data = Obj(<<Prop("Message", Str("Denied"))>>)
  /\ completion.error.message = "API Error (500): Denied"

\* C5: a request without a response fails with the 'No response from AWS
\* Braket API' message, which no received response produces; an error with
\* neither response nor request is thrown as it is, the same error object.
C5_TransportAndUnclassified ==
  (OperationRan /\ Sent) =>
    /\ NetworkOutcome.type = "noResponse" =>
         completion.kind = "throw" /\ completion.error = NewError(NoResponseMessage)
    /\ Received => completion.error.message # NoResponseMessage
    /\ NetworkOutcome.type = "local" =>
         /\ completion.kind = "throw"
         /\ completion.error = ErrorObject(NetworkOutcome.ident, NetworkOutcome.message,
                                           FALSE, 0, Undef, FALSE)

\* an error raised before the request was built, thrown unchanged
C5_Witness ==
  /\ ApiCalled
  /\ NetworkOutcome.type = "local"
  /\ NetworkOutcome.ident = "local-2"
  /\ completion.kind = "throw"
  /\ completion.error.ident = "local-2"
  /\ completion.error.message = "Invalid URL"

\* C6 (as claimed): a CLI command exits with code 1 exactly when it printed
\* an error line, and with code 0 otherwise.
C6_ExitCodeOneOnAnyError ==
  (pc = "done" /\ invocation.level = "cli") => (exitCode = 1 <=> Len(stderr) > 0)

\* C7 (as claimed): on a 2xx response every operation returns the response
\* payload itself.
C7_PayloadReturnedUnmodified ==
  (ApiCalled /\ Success) =>
    completion.kind = "return" /\ completion.value = NetworkOutcome.data

\* the field of the payload a list operation returns
ListKey(op) ==
  CASE op = "listQuantumTasks" -> "quantumTasks"
    [] op = "listDevices" -> "devices"
    [] op = "listJobs" -> "jobs"

\* C7 (amended): on a 2xx response the get, create and cancel operations
\* return the response payload itself; a list operation returns the payload's
\* quantumTasks, devices or jobs field when that field is truthy and an empty
\* array otherwise, and throws a TypeError when the payload is null or
\* undefined.
C7_PayloadOrListField ==
  (ApiCalled /\ Success) =>
    LET data == NetworkOutcome.data
        key == ListKey(invocation.op)
    IN IF invocation.op \notin ListOperations
       THEN completion.kind = "return" /\ completion.value = data
       ELSE IF data.t \in {"undefined", "null"}
       THEN completion.kind = "throw" /\ completion.error.ident = "new TypeError"
       ELSE /\ completion.kind = "return"
            /\ completion.value =
                 IF data.t = "object" /\ Truthy(GetProp(data, key))
                 THEN GetProp(data, key) ELSE Arr(<<>>)

\* listJobs on a payload without the jobs field returns an empty array
C7_Witness ==
  /\ ApiCalled
  /\ Success
  /\ invocation.op = "listJobs"
  /\ NetworkOutcome.data = Obj(<<>>)
  /\ completion.kind = "return"
  /\ completion.value = Arr(<<>>)

HasKey(obj, key) == \E j \in 1..Len(obj.o) : obj.o[j].k = key

\* C8: the body handed to axios is the string whose hash is in
\* x-amz-content-sha256 and in the canonical request, no body is handed over
\* exactly when that string is empty, method and URL path are those of the
\* canonical request, and every header of the canonical header block is
\* handed over with its value, together with the authorization header.
C8_TransportGetsWhatWasSigned ==
  \A i \in 1..Len(httpLog) :
    /\ i <= Len(signerLog)
    /\ LET r == httpLog[i]
           sg == signerLog[i]
           sentText == IF r.data = Undef THEN "" ELSE Text(r.data)
       IN /\ r.data # Undef => r.data.t = "string" /\ sentText # ""
          /\ sentText = Text(sg.bodyStr)
          /\ GetProp(r.headers, "x-amz-content-sha256") = Str(Sha256Hex(sentText))
          /\ sg.canonicalParts[6] = Sha256Hex(sentText)
          /\ r.method = sg.canonicalParts[1]
          /\ r.url = "https://" \o Text(GetProp(r.headers, "host")) \o sg.canonicalParts[2]
          /\ \A j \in 1..Len(sg.canonicalLines) :
               /\ HasKey(r.headers, sg.canonicalLines[j].k)
               /\ GetProp(r.headers, sg.canonicalLines[j].k) = sg.canonicalLines[j].v
          /\ sg.canonicalParts[4] =
               JoinStr([j \in 1..Len(sg.canonicalLines) |->
                         sg.canonicalLines[j].k \o ":" \o Text(sg.canonicalLines[j].v)
                           \o "\n"], "")
          /\ HasKey(r.headers, "authorization")
          /\ GetProp(r.headers, "authorization") = Str(sg.authorization)

\* listDevices without filters sends the body {} it hashed
C8_Witness ==
  /\ ApiCalled
  /\ invocation.op = "listDevices"
  /\ Len(httpLog) = 1
  /\ httpLog[1].data # Undef
  /\ Text(httpLog[1].data) = "{}"
  /\ GetProp(httpLog[1].headers, "x-amz-content-sha256") = Str(Sha256Hex("{}"))

\* C9: a signed request has the x-amz-security-token header, in the returned
\* headers, in the canonical headers and among the signed header names, if
\* and only if a session token is configured, with the token as its value.
C9_SecurityTokenHeader ==
  \A i \in 1..Len(signerLog) :
    LET sg == signerLog[i]
        name == "x-amz-security-token"
        token == config.sessionToken
        inHeaders == HasKey(sg.headers, name)
        inCanonical == \E j \in 1..Len(sg.canonicalLines) : sg.canonicalLines[j].k = name
        inSigned == \E j \in 1..Len(sg.canonicalNames) : sg.canonicalNames[j] = name
    IN IF Truthy(token)
       THEN /\ inHeaders /\ inCanonical /\ inSigned
            /\ GetProp(sg.headers, name) = token
            /\ \A j \in 1..Len(sg.canonicalLines) :
                 sg.canonicalLines[j].k = name => sg.canonicalLines[j].v = token
       ELSE ~inHeaders /\ ~inCanonical /\ ~inSigned

\* a request signed with no session token configured has no token header
C9_Witness ==
  /\ ApiCalled
  /\ Len(signerLog) = 1
  /\ config.sessionToken = Undef
  /\ ~HasKey(signerLog[1].headers, "x-amz-security-token")
  /\ Len(signerLog[1].canonicalNames) = 4

\* the header names a request is signed with, in lexicographic order
ExpectedSignedNames ==
  IF Truthy(config.sessionToken)
  THEN <<"content-type", "host", "x-amz-content-sha256", "x-amz-date",
         "x-amz-security-token">>
  ELSE <<"content-type", "host", "x-amz-content-sha256", "x-amz-date">>

\* C10: SignedHeaders in the authorization header and in the canonical
\* request is the semicolon-joined list of content-type, host,
\* x-amz-content-sha256, x-amz-date and, with a session token,
\* x-amz-security-token, in lexicographic order, and the canonical headers
\* block has one name:value line for each of these names, in that order.
C10_SignedHeadersSorted ==
  \A i \in 1..Len(signerLog) :
    LET sg == signerLog[i]
        names == ExpectedSignedNames
        joined == JoinStr(names, ";")
    IN /\ \A j, k \in 1..Len(names) : j < k => StringLess(names[j], names[k])
       /\ sg.canonicalParts[5] = joined
       /\ GetProp(sg.headers, "authorization") =
            Str("AWS4-HMAC-SHA256 Credential=" \o Text(config.accessKeyId) \o "/"
                  \o sg.credentialScope \o ", SignedHeaders=" \o joined
                  \o ", Signature=" \o sg.signature)
       /\ sg.canonicalParts[4] =
            JoinStr([j \in 1..Len(names) |->
                      names[j] \o ":" \o Text(GetProp(sg.headers, names[j])) \o "\n"], "")
       /\ {sg.headers.o[j].k : j \in 1..Len(sg.headers.o)} =
            {names[j] : j \in 1..Len(names)} \cup {"authorization"}

\* a request signed with a session token: five names, the token last
C10_Witness ==
  /\ ApiCalled
  /\ Len(signerLog) = 1
  /\ Truthy(config.sessionToken)
  /\ signerLog[1].signedHeaders =
       "content-type;host;x-amz-content-sha256;x-amz-date;x-amz-security-token"

\* signedRequest was applied on its own
SignerCalled == pc = "done" /\ invocation.level = "signer" /\ Len(signerLog) = 1

\* a body was supplied: the argument is neither left out nor null
BodySupplied(body) == body \notin {Undef, Null}

Origin == "https://braket." \o Text(Or(config.region, Str("us-east-1"))) \o ".amazonaws.com"

\* jobs were listed, by the API operation or by `circuits list`
JobsListed == pc = "done" /\ invocation.op \in {"listJobs", "circuits list"}

\* the page size the invocation asked for
RequestedMaxResults ==
  IF invocation.level = "api"
  THEN (IF invocation.args.maxResults = Undef THEN Num(10) ELSE invocation.args.maxResults)
  ELSE (IF invocation.args.maxResults = <<"5">> THEN Num(5) ELSE Num(10))

\* C12: listing jobs issues a GET on /jobs with no body; its query parameters
\* are maxResults and, if and only if a (non-empty) state was given,
\* filters = state:<STATE>, and nothing else.
C12_ListJobsIsGetWithQuery ==
  JobsListed =>
    /\ Len(httpLog) <= 1
    /\ HasCredentials => Len(httpLog) = 1
    /\ \A i \in 1..Len(httpLog) :
         LET r == httpLog[i]
             state == invocation.args.state
         IN /\ r.method = "GET"
            /\ r.url = Origin \o "/jobs"
            /\ r.data = Undef
            /\ signerLog[i].bodyStr = Str("")
            /\ r.params.t = "object"
            /\ GetProp(r.params, "maxResults") = RequestedMaxResults
            /\ HasKey(r.params, "filters") <=> Truthy(state)
            /\ Truthy(state) =>
                 GetProp(r.params, "filters") = StrC(<<"state:">> \o state.c)
            /\ \A j \in 1..Len(r.params.o) : r.params.o[j].k \in {"maxResults", "filters"}

\* listJobs with state RUNNING sends GET /jobs?maxResults=10&filters=state:RUNNING
C12_Witness ==
  /\ ApiCalled
  /\ invocation.op = "listJobs"
  /\ invocation.args.state = Str("RUNNING")
  /\ invocation.args.maxResults = Undef
  /\ Len(httpLog) = 1
  /\ httpLog[1].method = "GET"
  /\ httpLog[1].data = Undef
  /\ httpLog[1].params =
       Obj(<<Prop("maxResults", Num(10)), Prop("filters", Str("state:RUNNING"))>>)

\* tasks were listed, by the API operation or by `tasks list`
TasksListed == pc = "done" /\ invocation.op \in {"listQuantumTasks", "tasks list"}

\* the JSON text of the body a task listing is to send; the identifiers and
\* status names need no escaping
ExpectedListTasksBody(maxResults, deviceArn, status) ==
  "{\"maxResults\":" \o ToString(maxResults.n)
    \o (IF Truthy(deviceArn) THEN ",\"deviceArn\":\"" \o Text(deviceArn) \o "\"" ELSE "")
    \o (IF Truthy(status)
        THEN ",\"filters\":[{\"name\":\"status\",\"values\":[\"" \o Text(status) \o "\"]}]"
        ELSE "")
    \o "}"

\* C13: listing tasks issues a POST on /quantum-tasks without query
\* parameters whose body text has maxResults first, then deviceArn only if a
\* device ARN was given, then filters = [{name: 'status', values: [status]}]
\* only if a status was given, and nothing else; with status COMPLETED,
\* maxResults 10 and no device ARN it is the text of the spec's scenario.
C13_ListTasksBody ==
  TasksListed =>
    /\ Len(httpLog) <= 1
    /\ HasCredentials => Len(httpLog) = 1
    /\ \A i \in 1..Len(httpLog) :
         LET r == httpLog[i]
             a == invocation.args
         IN /\ r.method = "POST"
            /\ r.url = Origin \o "/quantum-tasks"
            /\ r.params = Undef
            /\ r.data # Undef
            /\ Text(r.data) = ExpectedListTasksBody(RequestedMaxResults, a.deviceArn, a.status)
            /\ (a.status = Str("COMPLETED") /\ RequestedMaxResults = Num(10)
                  /\ a.deviceArn = Undef) =>
                 Text(r.data) =
                   "{\"maxResults\":10,\"filters\":[{\"name\":\"status\",\"values\":[\"COMPLETED\"]}]}"

\* `tasks list --status COMPLETED` has sent the body of the scenario
C13_Witness ==
  /\ pc = "done"
  /\ invocation.op = "tasks list"
  /\ invocation.args.status = Str("COMPLETED")
  /\ invocation.args.deviceArn = Undef
  /\ Len(httpLog) = 1
  /\ httpLog[1].method = "POST"
  /\ Text(httpLog[1].data) =
       "{\"maxResults\":10,\"filters\":[{\"name\":\"status\",\"values\":[\"COMPLETED\"]}]}"

\* `tasks create` ran without --action
CreatedWithDefaultAction ==
  pc = "done" /\ invocation.op = "tasks create" /\ ~Truthy(invocation.args.action)

\* the JSON text of the canned Bell-state program: braketSchemaHeader, source
\* (five lines of OpenQASM 3 joined by line feeds) and inputs
BellStateJson ==
  "{\"braketSchemaHeader\":{\"name\":\"braket.ir.openqasm.program\",\"version\":\"1\"},"
    \o "\"source\":\"OPENQASM 3.0;\\nqubit[2] q;\\nh q[0];\\ncnot q[0], q[1];"
    \o "\\n#pragma braket result probability q[0], q[1]\",\"inputs\":{}}"

\* BellStateJson as it stands inside a JSON string: quotes and backslashes escaped
BellStateJsonEscaped ==
  "{\\\"braketSchemaHeader\\\":{\\\"name\\\":\\\"braket.ir.openqasm.program\\\","
    \o "\\\"version\\\":\\\"1\\\"},"
    \o "\\\"source\\\":\\\"OPENQASM 3.0;\\\\nqubit[2] q;\\\\nh q[0];\\\\ncnot q[0], q[1];"
    \o "\\\\n#pragma braket result probability q[0], q[1]\\\",\\\"inputs\\\":{}}"

\* the body text of `tasks create` up to the value of its action field
CreateTaskBodyPrefix ==
  "{\"deviceArn\":\"" \o Text(invocation.args.deviceArn)
    \o "\",\"shots\":100,\"outputS3Bucket\":\"" \o Text(invocation.args.s3Bucket)
    \o "\",\"outputS3KeyPrefix\":\"" \o Text(invocation.args.s3Prefix)
    \o "\",\"action\":"

\* C14 as stated: without --action, the action field of the body sent to
\* POST /quantum-tasks deep-equals the canned Bell-state program literal, that
\* is, the body carries the literal itself as the value of action.
C14_ActionDeepEqualsBellLiteral ==
  CreatedWithDefaultAction =>
    \A i \in 1..Len(httpLog) :
      /\ httpLog[i].method = "POST"
      /\ httpLog[i].url = Origin \o "/quantum-tasks"
      /\ Text(httpLog[i].data) = CreateTaskBodyPrefix \o BellStateJson \o "}"

\* C14, amended: without --action, the action field of the body sent to
\* POST /quantum-tasks is a string, the JSON serialization of the canned
\* Bell-state program literal (braketSchemaHeader, source, inputs).
C14_ActionIsSerializedBellLiteral ==
  CreatedWithDefaultAction =>
    /\ Len(httpLog) <= 1
    /\ HasCredentials => Len(httpLog) = 1
    /\ \A i \in 1..Len(httpLog) :
         /\ httpLog[i].method = "POST"
         /\ httpLog[i].url = Origin \o "/quantum-tasks"
         /\ httpLog[i].params = Undef
         /\ httpLog[i].data # Undef
         /\ Text(httpLog[i].data) =
              CreateTaskBodyPrefix \o "\"" \o BellStateJsonEscaped \o "\"}"
         /\ Text(JSONstringify(BellStateAction)) = BellStateJson

\* `tasks create` without --action has sent a body with the serialized program
C14_Witness ==
  /\ CreatedWithDefaultAction
  /\ Len(httpLog) = 1
  /\ httpLog[1].method = "POST"
  /\ Text(httpLog[1].data) = CreateTaskBodyPrefix \o "\"" \o BellStateJsonEscaped \o "\"}"

\* C15: the query-string line of every canonical request is empty and its
\* path is the path of the operation, without the query; so two job listings
\* made with the same store at the same instant carry the same authorization
\* header and the same signed headers, whatever their query parameters.
C15_QueryParametersUnsigned ==
  /\ Len(httpLog) = Len(signerLog)
  /\ \A i \in 1..Len(signerLog) :
       /\ signerLog[i].canonicalParts[3] = ""
       /\ (invocation.op = "listJobs") =>
            /\ signerLog[i].canonicalParts[1] = "GET"
            /\ signerLog[i].canonicalParts[2] = "/jobs"
            /\ signerLog[i].bodyStr = Str("")
  /\ \A i, j \in 1..Len(signerLog) :
       (/\ signerLog[i].canonicalParts[1] = signerLog[j].canonicalParts[1]
        /\ signerLog[i].canonicalParts[2] = signerLog[j].canonicalParts[2]
        /\ signerLog[i].bodyStr = signerLog[j].bodyStr
        /\ signerLog[i].host = signerLog[j].host
        /\ GetProp(signerLog[i].headers, "x-amz-date")
             = GetProp(signerLog[j].headers, "x-amz-date"))
         => /\ signerLog[i].authorization = signerLog[j].authorization
            /\ signerLog[i].signedHeaders = signerLog[j].signedHeaders
            /\ signerLog[i].canonicalParts = signerLog[j].canonicalParts
            /\ GetProp(httpLog[i].headers, "authorization")
                 = GetProp(httpLog[j].headers, "authorization")
            /\ httpLog[i].headers = httpLog[j].headers

\* two job listings at the same instant, one with state RUNNING and
\* maxResults 5 and one without a state: same authorization header
C15_Witness ==
  /\ Len(httpLog) = 2
  /\ httpLog[1].params =
       Obj(<<Prop("maxResults", Num(5)), Prop("filters", Str("state:RUNNING"))>>)
  /\ httpLog[2].params = Obj(<<Prop("maxResults", Num(10))>>)
  /\ GetProp(httpLog[1].headers, "x-amz-date") = GetProp(httpLog[2].headers, "x-amz-date")
  /\ GetProp(httpLog[1].headers, "authorization")
       = GetProp(httpLog[2].headers, "authorization")
  /\ signerLog[1].signedHeaders = signerLog[2].signedHeaders

\* an option was given with a non-empty value
OptionGiven(v) == v # Undef /\ v # Str("")

\* the step is a run of `config set`
ConfigSetStep == pc = "idle" /\ pc' = "done" /\ invocation'.op = "config set"

\* C16: a step of `config set` changes exactly the keys whose options were
\* given with a non-empty value, to those values, and every other step leaves
\* the store as it is; so no key that is set is ever unset, isConfigured()
\* stays true once true, and once a sessionToken is stored every signed
\* request carries x-amz-security-token.
C16_ConfigurationOnlyGrows ==
  [][/\ ConfigSetStep =>
          \A k \in ConfigKeys :
            config'[k] = IF OptionGiven(invocation'.args[k])
                         THEN invocation'.args[k]
                         ELSE config[k]
     /\ ~ConfigSetStep => config' = config
     /\ \A k \in ConfigKeys : Truthy(config[k]) => Truthy(config'[k])
     /\ (Truthy(config.accessKeyId) /\ Truthy(config.secretAccessKey))
          => (Truthy(config'.accessKeyId) /\ Truthy(config'.secretAccessKey))
     /\ Truthy(config.sessionToken) =>
          /\ Truthy(config'.sessionToken)
          /\ \A i \in 1..Len(signerLog') :
               HasKey(signerLog'[i].headers, "x-amz-security-token")
          /\ \A i \in 1..Len(httpLog') :
               HasKey(httpLog'[i].headers, "x-amz-security-token")]_vars

\* `config set --region eu-west-2 --access-key-id ""` has run on a store with
\* credentials and a session token: they are still there
C16_Witness ==
  /\ pc = "done"
  /\ invocation.op = "config set"
  /\ invocation.args.accessKeyId = Str("")
  /\ invocation.args.secretAccessKey = Undef
  /\ invocation.args.sessionToken = Undef
  /\ invocation.args.region = Str("eu-west-2")
  /\ config.accessKeyId = Str("AKIAEXAMPLE")
  /\ config.secretAccessKey = Str("secret")
  /\ config.sessionToken = Str("token")
  /\ config.region = Str("eu-west-2")

====
